---- MODULE Spec2Model ----
(***************************************************************************)
(* SmartLead (src/main.py): a coordinator thread (execute), the Lead       *)
(* Expander thread (addToLeadQueue) and the Lead Evaluator thread          *)
(* (processLeadQueue), two queue.Queue objects and one threading.Event.    *)
(* Every step of a thread that touches shared state is one action.         *)
(***************************************************************************)
EXTENDS Integers, Sequences, FiniteSets, TLC

\* ---------------------------------------------------------------- bounds
MaxCampaigns == 4   \* campaigns in the list the vendor returns
MaxLeads == 1       \* rows in one campaign's lead export
MaxHist == 2        \* entries in one message history
MaxTime == 120      \* seconds of clock the rate limiter is followed for
Step == 30          \* seconds between two instants at which the clock is read

\* ------------------------------------------------------------- constants
GraceDays == 7      \* timedelta(days=7)
BreakCount == 2     \* if(count == 2): break
MissingId == 0      \* stands for a campaign object without the key "id"
maxsize == 0        \* queue.Queue(): maxsize defaults to 0, no upper limit
CALLS == 50         \* CALLS = 50
RATE_LIMIT == 60    \* RATE_LIMIT = 60 (seconds)

Statuses == {"COMPLETED", "ACTIVE"}
Types == {"REPLY", "SENT"}
\* age of an entry in days at the time of evaluation: now - strptime(time)
Ages == {GraceDays - 1, GraceDays, GraceDays + 1}

\* The sentinel None, as it appears in each queue.
NoneCampaign == [id |-> 0, status |-> "None"]
NoneLead == [campaign_id |-> 0, lead_id |-> 0]

CampaignIds == 1..MaxCampaigns
LeadIds == 1..MaxLeads
Pairs == [campaign_id : CampaignIds, lead_id : LeadIds]

\* Sequences over S of length 0..n
RECURSIVE SeqsUpTo(_, _)
SeqsUpTo(S, n) ==
    IF n = 0 THEN {<<>>}
    ELSE LET shorter == SeqsUpTo(S, n - 1)
         IN shorter \cup {Append(s, x) : s \in {t \in shorter : Len(t) = n - 1}, x \in S}

\* JSON bodies of GET /campaigns: the vendor gives every campaign its own id.
CampaignLists ==
    UNION {[1..n -> Statuses] : n \in 0..MaxCampaigns}

CampaignBody(f) == [i \in DOMAIN f |-> [id |-> i, status |-> f[i]]]

\* The body with the key "id" missing from the campaigns at the positions S.
\* Only "status" is read of a campaign that is not COMPLETED.
WithoutId(body, S) ==
    [i \in DOMAIN body |->
       IF i \in S THEN [id |-> MissingId, status |-> body[i].status] ELSE body[i]]

\* What request() hands back: None on a RequestException, else the response.
CampaignResponses ==
    {[ok |-> FALSE, body |-> <<>>]}
      \cup UNION {{[ok |-> TRUE, body |-> WithoutId(CampaignBody(f), S)] :
                     S \in SUBSET {i \in DOMAIN f : f[i] = "COMPLETED"}} :
                   f \in CampaignLists}

\* CSV bodies of GET /campaigns/{id}/leads-export: one row per lead id.
ExportLists == UNION {[1..n -> Statuses] : n \in 0..MaxLeads}

ExportResponses ==
    {[ok |-> FALSE, body |-> <<>>]}
      \cup {[ok |-> TRUE, body |-> CampaignBody(f)] : f \in ExportLists}

Entries == [type : Types, age : Ages]
Histories == SeqsUpTo(Entries, MaxHist)

HistoryResponses ==
    {[ok |-> FALSE, history |-> <<>>]}
      \cup {[ok |-> TRUE, history |-> h] : h \in Histories}

VARIABLES
    pc,               \* where execute is
    campaign_thread,  \* where addToLeadQueue is ("unstarted" before start())
    lead_thread,      \* where processLeadQueue is ("unstarted" before start())
    campaignQueue,    \* self.campaignQueue: items not yet taken
    leadQueue,        \* self.leadQueue: items not yet taken
    unfinishedC,      \* campaignQueue.unfinished_tasks
    unfinishedL,      \* leadQueue.unfinished_tasks
    stop_event,       \* self.stop_event.is_set()
    response,         \* what GET /campaigns returned (kept for reference)
    campaigns,        \* execute: campaigns
    count,            \* execute: count
    idx,              \* execute: position of the for loop in campaigns
    campaign,         \* addToLeadQueue: campaign
    export,           \* the export fetched for campaign (kept for reference)
    leads,            \* addToLeadQueue: the part of leads not yet put
    message,          \* processLeadQueue: message
    emails,           \* processLeadQueue: emails
    puts,             \* number of leadQueue.put per lead task
    evals,            \* number of evaluations per lead task
    deletes,          \* number of DELETE calls per (campaign_id, lead_id)
    expanded,         \* campaign ids whose lead export was requested
    interrupted,      \* a KeyboardInterrupt was raised in execute
    enqueuedC,        \* every item put on campaignQueue, in order
    enqueuedL,        \* every item put on leadQueue, in order
    takenC,           \* every item campaignQueue.get returned, in order
    takenL,           \* every item leadQueue.get returned, in order
    doneC,            \* the item in hand at each campaignQueue.task_done call
    doneL,            \* the item in hand at each leadQueue.task_done call
    completedRows,    \* (campaign_id, lead_id) of the COMPLETED rows fetched
    clock,            \* limits: what self.clock() returns, in seconds
    last_reset,       \* limits: self.last_reset
    num_calls,        \* limits: self.num_calls
    wake,             \* sleep_and_retry: when each caller's time.sleep ends
    recent            \* HTTP calls made at each instant of the last RATE_LIMIT seconds

vars == <<pc, campaign_thread, lead_thread, campaignQueue, leadQueue,
          unfinishedC, unfinishedL, stop_event, response, campaigns, count,
          idx, campaign, export, leads, message, emails, puts, evals, deletes,
          expanded, interrupted, enqueuedC, enqueuedL, takenC, takenL, doneC,
          doneL, completedRows, clock, last_reset, num_calls, wake, recent>>

pipelineVars == <<pc, campaign_thread, lead_thread, campaignQueue, leadQueue,
                  unfinishedC, unfinishedL, stop_event, response, campaigns,
                  count, idx, campaign, export, leads, message, emails, puts,
                  evals, deletes, expanded, interrupted, enqueuedC, enqueuedL,
                  takenC, takenL, doneC, doneL, completedRows>>
limiterVars == <<clock, last_reset, num_calls, wake, recent>>
coordVars == <<pc, response, campaigns, count, idx, interrupted>>
expanderVars == <<campaign_thread, campaign, export, leads, expanded>>
evaluatorVars == <<lead_thread, message, emails, evals, deletes>>

NoResponse == [ok |-> FALSE, body |-> <<>>]
NoExport == [ok |-> FALSE, body |-> <<>>]

\* the threads that call self.request
Callers == {"execute", "addToLeadQueue", "processLeadQueue"}
\* instants of the clock that lie within one span of RATE_LIMIT seconds
WindowInstants == (RATE_LIMIT - 1) \div Step + 1

Init ==
    /\ pc = "get_campaigns"
    /\ campaign_thread = "unstarted"
    /\ lead_thread = "unstarted"
    /\ campaignQueue = <<>>
    /\ leadQueue = <<>>
    /\ unfinishedC = 0
    /\ unfinishedL = 0
    /\ stop_event = FALSE
    /\ response = NoResponse
    /\ campaigns = <<>>
    /\ count = 0
    /\ idx = 1
    /\ campaign = NoneCampaign
    /\ export = NoExport
    /\ leads = <<>>
    /\ message = NoneLead
    /\ emails = <<>>
    /\ puts = [p \in Pairs |-> 0]
    /\ evals = [p \in Pairs |-> 0]
    /\ deletes = [p \in Pairs |-> 0]
    /\ expanded = {}
    /\ interrupted = FALSE
    /\ enqueuedC = <<>>
    /\ enqueuedL = <<>>
    /\ takenC = <<>>
    /\ takenL = <<>>
    /\ doneC = <<>>
    /\ doneL = <<>>
    /\ completedRows = {}
    /\ clock = 0
    /\ last_reset = 0
    /\ num_calls = 0
    /\ wake = [c \in Callers |-> 0]
    /\ recent = [k \in 1..WindowInstants |-> 0]

\* ------------------------------------------------------- pure functions

\* the filter on status left out
_get_campaigns_unfiltered(resp) == IF resp.ok THEN resp.body ELSE <<>>

\* _get_campaigns: [x for x in response.json() if x["status"] == "COMPLETED"]
_get_campaigns(resp) ==
    IF resp.ok THEN SelectSeq(resp.body, LAMBDA x : x.status = "COMPLETED")
    ELSE <<>>

\* the filter on status left out
_get_lead_ids_unfiltered(resp) ==
    IF resp.ok THEN [i \in DOMAIN resp.body |-> resp.body[i].id] ELSE <<>>

\* _get_lead_ids: data.filter(status == "COMPLETED").select("id").to_list()
_get_lead_ids(resp) ==
    IF resp.ok
    THEN LET kept == SelectSeq(resp.body, LAMBDA x : x.status = "COMPLETED")
         IN [i \in DOMAIN kept |-> kept[i].id]
    ELSE <<>>

\* get_message_history(...).get("history", [])
get_message_history(resp) == IF resp.ok THEN resp.history ELSE <<>>

\* any(email["type"] == "REPLY" for email in emails)
reply(es) == \E i \in DOMAIN es : es[i].type = "REPLY"

\* >= in place of >
Older_or_equal(e) == e.age >= GraceDays

\* now - strptime(emails[-1]["time"]) > timedelta(days=7)
Older(e) == e.age > GraceDays

\* the condition of line 59 raises IndexError: emails[-1] of an empty list
Raises(es) == ~reply(es) /\ es = <<>>

\* the last entry taken from the front of the list
Stale_first_entry(es) == ~reply(es) /\ es # <<>> /\ Older(es[1])

\* the condition of line 59 is true: the lead is deleted
Stale(es) == ~reply(es) /\ es # <<>> /\ Older(es[Len(es)])

\* Queue.task_done: the new unfinished_tasks (ValueError leaves it at 0)
task_done(unfinished) == IF unfinished > 0 THEN unfinished - 1 ELSE unfinished

\* Queue.put blocks while the queue is full; Queue() (maxsize 0) is never full
Full(q) == maxsize > 0 /\ Len(q) >= maxsize

\* ------------------------------------------------------------- execute

TryBlock == {"get_campaigns", "start_lead", "start_campaign", "put_campaign",
             "put_sentinel", "join_campaignQueue", "join_leadQueue"}

\* campaigns = self._get_campaigns(); if not campaigns: return
GetCampaigns ==
    /\ pc = "get_campaigns"
    /\ \E resp \in CampaignResponses :
         /\ response' = resp
         /\ campaigns' = _get_campaigns(resp)
         /\ pc' = IF _get_campaigns(resp) = <<>> THEN "finally" ELSE "start_lead"
    /\ UNCHANGED <<campaignQueue, leadQueue, unfinishedC, unfinishedL, stop_event,
                   count, idx, interrupted>>
    /\ UNCHANGED expanderVars
    /\ UNCHANGED evaluatorVars
    /\ UNCHANGED puts
    /\ UNCHANGED <<enqueuedC, enqueuedL, takenC, takenL,
                   doneC, doneL, completedRows>>
    /\ UNCHANGED limiterVars

\* self.lead_thread.start()
StartLeadThread ==
    /\ pc = "start_lead"
    /\ pc' = "start_campaign"
    /\ lead_thread' = "loop"
    /\ UNCHANGED <<campaignQueue, leadQueue, unfinishedC, unfinishedL, stop_event,
                   response, campaigns, count, idx, interrupted, message, emails,
                   evals, deletes, puts>>
    /\ UNCHANGED expanderVars
    /\ UNCHANGED <<enqueuedC, enqueuedL, takenC, takenL,
                   doneC, doneL, completedRows>>
    /\ UNCHANGED limiterVars

\* self.campaign_thread.start(); count = 0
StartCampaignThread ==
    /\ pc = "start_campaign"
    /\ pc' = "put_campaign"
    /\ campaign_thread' = "loop"
    /\ count' = 0
    /\ idx' = 1
    /\ UNCHANGED <<campaignQueue, leadQueue, unfinishedC, unfinishedL, stop_event,
                   response, campaigns, interrupted, campaign, export, leads,
                   expanded, puts>>
    /\ UNCHANGED evaluatorVars
    /\ UNCHANGED <<enqueuedC, enqueuedL, takenC, takenL,
                   doneC, doneL, completedRows>>
    /\ UNCHANGED limiterVars

\* the for loop without its break: every campaign of the list is put
PutCampaign_no_break ==
    /\ pc = "put_campaign"
    /\ idx <= Len(campaigns)
    /\ ~Full(campaignQueue)
    /\ campaignQueue' = Append(campaignQueue, campaigns[idx])
    /\ unfinishedC' = unfinishedC + 1
    /\ count' = count + 1
    /\ idx' = idx + 1
    /\ pc' = IF idx + 1 > Len(campaigns) THEN "put_sentinel" ELSE "put_campaign"
    /\ UNCHANGED <<leadQueue, unfinishedL, stop_event, response, campaigns,
                   interrupted, puts>>
    /\ UNCHANGED expanderVars
    /\ UNCHANGED evaluatorVars
    /\ enqueuedC' = Append(enqueuedC, campaigns[idx])
    /\ UNCHANGED <<enqueuedL, takenC, takenL, doneC,
                   doneL, completedRows>>
    /\ UNCHANGED limiterVars

\* one iteration of: for campaign in campaigns: put; if count == 2: break; count += 1
PutCampaign ==
    /\ pc = "put_campaign"
    /\ idx <= Len(campaigns)
    /\ ~Full(campaignQueue)
    /\ campaignQueue' = Append(campaignQueue, campaigns[idx])
    /\ unfinishedC' = unfinishedC + 1
    /\ IF count = BreakCount
       THEN /\ pc' = "put_sentinel"
            /\ UNCHANGED <<count, idx>>
       ELSE /\ count' = count + 1
            /\ idx' = idx + 1
            /\ pc' = IF idx + 1 > Len(campaigns) THEN "put_sentinel" ELSE "put_campaign"
    /\ UNCHANGED <<leadQueue, unfinishedL, stop_event, response, campaigns,
                   interrupted, puts>>
    /\ UNCHANGED expanderVars
    /\ UNCHANGED evaluatorVars
    /\ enqueuedC' = Append(enqueuedC, campaigns[idx])
    /\ UNCHANGED <<enqueuedL, takenC, takenL, doneC,
                   doneL, completedRows>>
    /\ UNCHANGED limiterVars

\* self.campaignQueue.put(None)
PutSentinel ==
    /\ pc = "put_sentinel"
    /\ ~Full(campaignQueue)
    /\ campaignQueue' = Append(campaignQueue, NoneCampaign)
    /\ unfinishedC' = unfinishedC + 1
    /\ pc' = "join_campaignQueue"
    /\ UNCHANGED <<leadQueue, unfinishedL, stop_event, response, campaigns, count,
                   idx, interrupted, puts>>
    /\ UNCHANGED expanderVars
    /\ UNCHANGED evaluatorVars
    /\ enqueuedC' = Append(enqueuedC, NoneCampaign)
    /\ UNCHANGED <<enqueuedL, takenC, takenL, doneC,
                   doneL, completedRows>>
    /\ UNCHANGED limiterVars

\* self.campaignQueue.join() returns
JoinCampaignQueue ==
    /\ pc = "join_campaignQueue"
    /\ unfinishedC = 0
    /\ pc' = "join_leadQueue"
    /\ UNCHANGED <<campaignQueue, leadQueue, unfinishedC, unfinishedL, stop_event,
                   response, campaigns, count, idx, interrupted, puts>>
    /\ UNCHANGED expanderVars
    /\ UNCHANGED evaluatorVars
    /\ UNCHANGED <<enqueuedC, enqueuedL, takenC, takenL,
                   doneC, doneL, completedRows>>
    /\ UNCHANGED limiterVars

\* self.leadQueue.join() returns
JoinLeadQueue ==
    /\ pc = "join_leadQueue"
    /\ unfinishedL = 0
    /\ pc' = "finally"
    /\ UNCHANGED <<campaignQueue, leadQueue, unfinishedC, unfinishedL, stop_event,
                   response, campaigns, count, idx, interrupted, puts>>
    /\ UNCHANGED expanderVars
    /\ UNCHANGED evaluatorVars
    /\ UNCHANGED <<enqueuedC, enqueuedL, takenC, takenL,
                   doneC, doneL, completedRows>>
    /\ UNCHANGED limiterVars

\* except KeyboardInterrupt: self.stop_event.set()
KeyboardInterrupt ==
    /\ pc \in TryBlock
    /\ interrupted' = TRUE
    /\ stop_event' = TRUE
    /\ pc' = "finally"
    /\ UNCHANGED <<campaignQueue, leadQueue, unfinishedC, unfinishedL, response,
                   campaigns, count, idx, puts>>
    /\ UNCHANGED expanderVars
    /\ UNCHANGED evaluatorVars
    /\ UNCHANGED <<enqueuedC, enqueuedL, takenC, takenL,
                   doneC, doneL, completedRows>>
    /\ UNCHANGED limiterVars

\* finally: self.stop_event.set()
FinallySetStop ==
    /\ pc = "finally"
    /\ stop_event' = TRUE
    /\ pc' = "finally_put_campaignQueue"
    /\ UNCHANGED <<campaignQueue, leadQueue, unfinishedC, unfinishedL, response,
                   campaigns, count, idx, interrupted, puts>>
    /\ UNCHANGED expanderVars
    /\ UNCHANGED evaluatorVars
    /\ UNCHANGED <<enqueuedC, enqueuedL, takenC, takenL,
                   doneC, doneL, completedRows>>
    /\ UNCHANGED limiterVars

\* finally: self.campaignQueue.put(None)
FinallyPutCampaignQueue ==
    /\ pc = "finally_put_campaignQueue"
    /\ ~Full(campaignQueue)
    /\ campaignQueue' = Append(campaignQueue, NoneCampaign)
    /\ unfinishedC' = unfinishedC + 1
    /\ pc' = "finally_put_leadQueue"
    /\ UNCHANGED <<leadQueue, unfinishedL, stop_event, response, campaigns, count,
                   idx, interrupted, puts>>
    /\ UNCHANGED expanderVars
    /\ UNCHANGED evaluatorVars
    /\ enqueuedC' = Append(enqueuedC, NoneCampaign)
    /\ UNCHANGED <<enqueuedL, takenC, takenL, doneC,
                   doneL, completedRows>>
    /\ UNCHANGED limiterVars

\* finally: self.leadQueue.put(None)
FinallyPutLeadQueue ==
    /\ pc = "finally_put_leadQueue"
    /\ ~Full(leadQueue)
    /\ leadQueue' = Append(leadQueue, NoneLead)
    /\ unfinishedL' = unfinishedL + 1
    /\ pc' = "finally_join_campaign_thread"
    /\ UNCHANGED <<campaignQueue, unfinishedC, stop_event, response, campaigns,
                   count, idx, interrupted, puts>>
    /\ UNCHANGED expanderVars
    /\ UNCHANGED evaluatorVars
    /\ enqueuedL' = Append(enqueuedL, NoneLead)
    /\ UNCHANGED <<enqueuedC, takenC, takenL, doneC,
                   doneL, completedRows>>
    /\ UNCHANGED limiterVars

\* finally: self.campaign_thread.join()
\* Thread.join raises RuntimeError on a thread that was never started.
JoinCampaignThread ==
    /\ pc = "finally_join_campaign_thread"
    /\ campaign_thread \in {"unstarted", "finished"}
    /\ pc' = IF campaign_thread = "unstarted" THEN "raised"
             ELSE "finally_join_lead_thread"
    /\ UNCHANGED <<campaignQueue, leadQueue, unfinishedC, unfinishedL, stop_event,
                   response, campaigns, count, idx, interrupted, puts>>
    /\ UNCHANGED expanderVars
    /\ UNCHANGED evaluatorVars
    /\ UNCHANGED <<enqueuedC, enqueuedL, takenC, takenL,
                   doneC, doneL, completedRows>>
    /\ UNCHANGED limiterVars

\* finally: self.lead_thread.join(); print("All tasks completed")
JoinLeadThread ==
    /\ pc = "finally_join_lead_thread"
    /\ lead_thread \in {"unstarted", "finished"}
    /\ pc' = IF lead_thread = "unstarted" THEN "raised" ELSE "done"
    /\ UNCHANGED <<campaignQueue, leadQueue, unfinishedC, unfinishedL, stop_event,
                   response, campaigns, count, idx, interrupted, puts>>
    /\ UNCHANGED expanderVars
    /\ UNCHANGED evaluatorVars
    /\ UNCHANGED <<enqueuedC, enqueuedL, takenC, takenL,
                   doneC, doneL, completedRows>>
    /\ UNCHANGED limiterVars

\* ------------------------------------------------------ addToLeadQueue

\* while not self.stop_event.is_set()
CampaignLoop ==
    /\ campaign_thread = "loop"
    /\ campaign_thread' = IF stop_event THEN "put_sentinel" ELSE "get"
    /\ UNCHANGED <<campaignQueue, leadQueue, unfinishedC, unfinishedL, stop_event,
                   campaign, export, leads, expanded, puts>>
    /\ UNCHANGED coordVars
    /\ UNCHANGED evaluatorVars
    /\ UNCHANGED <<enqueuedC, enqueuedL, takenC, takenL,
                   doneC, doneL, completedRows>>
    /\ UNCHANGED limiterVars

\* self.campaignQueue.get(timeout=1) raises Empty: continue
CampaignGetTimeout ==
    /\ campaign_thread = "get"
    /\ campaignQueue = <<>>
    /\ campaign_thread' = "loop"
    /\ UNCHANGED <<campaignQueue, leadQueue, unfinishedC, unfinishedL, stop_event,
                   campaign, export, leads, expanded, puts>>
    /\ UNCHANGED coordVars
    /\ UNCHANGED evaluatorVars
    /\ UNCHANGED <<enqueuedC, enqueuedL, takenC, takenL,
                   doneC, doneL, completedRows>>
    /\ UNCHANGED limiterVars

\* campaign = self.campaignQueue.get(timeout=1)
\* if campaign is None: self.campaignQueue.task_done(); break
CampaignGet ==
    /\ campaign_thread = "get"
    /\ campaignQueue # <<>>
    /\ campaignQueue' = Tail(campaignQueue)
    /\ campaign' = Head(campaignQueue)
    /\ IF Head(campaignQueue) = NoneCampaign
       THEN /\ unfinishedC' = task_done(unfinishedC)
            /\ campaign_thread' = "put_sentinel"
       ELSE /\ unfinishedC' = unfinishedC
            /\ campaign_thread' = "get_lead_ids"
    /\ UNCHANGED <<leadQueue, unfinishedL, stop_event, export, leads, expanded, puts>>
    /\ UNCHANGED coordVars
    /\ UNCHANGED evaluatorVars
    /\ takenC' = Append(takenC, Head(campaignQueue))
    /\ doneC' = IF Head(campaignQueue) = NoneCampaign THEN Append(doneC, NoneCampaign) ELSE doneC
    /\ UNCHANGED <<enqueuedC, enqueuedL, takenL,
                   doneL, completedRows>>
    /\ UNCHANGED limiterVars

\* campaign["id"] raises KeyError: the except clause of line 104 continues
CampaignKeyError ==
    /\ campaign_thread = "get_lead_ids"
    /\ campaign.id = MissingId
    /\ campaign_thread' = "loop"
    /\ campaign' = NoneCampaign
    /\ UNCHANGED <<campaignQueue, leadQueue, unfinishedC, unfinishedL, stop_event,
                   export, leads, expanded, puts>>
    /\ UNCHANGED coordVars
    /\ UNCHANGED evaluatorVars
    /\ UNCHANGED <<enqueuedC, enqueuedL, takenC, takenL,
                   doneC, doneL, completedRows>>
    /\ UNCHANGED limiterVars

\* leads = self._get_lead_ids(campaign["id"])
GetLeadIds ==
    /\ campaign_thread = "get_lead_ids"
    /\ campaign.id # MissingId
    /\ \E resp \in ExportResponses :
         /\ export' = resp
         /\ leads' = _get_lead_ids(resp)
         /\ completedRows' = completedRows \cup
              {[campaign_id |-> campaign.id, lead_id |-> resp.body[i].id] :
                 i \in {j \in DOMAIN resp.body : resp.ok /\ resp.body[j].status = "COMPLETED"}}
    /\ expanded' = expanded \cup {campaign.id}
    /\ campaign_thread' = "put_leads"
    /\ UNCHANGED <<campaignQueue, leadQueue, unfinishedC, unfinishedL, stop_event,
                   campaign, puts>>
    /\ UNCHANGED coordVars
    /\ UNCHANGED evaluatorVars
    /\ UNCHANGED <<enqueuedC, enqueuedL, takenC, takenL,
                   doneC, doneL>>
    /\ UNCHANGED limiterVars

\* id of the campaign waiting at the head of campaignQueue, if there is one
NextId ==
    IF campaignQueue # <<>> /\ Head(campaignQueue).id \in CampaignIds
    THEN Head(campaignQueue).id ELSE campaign.id

\* the lead task carries the id of the next campaign, not of the one expanded
PutLead_next_campaign ==
    /\ campaign_thread = "put_leads"
    /\ leads # <<>>
    /\ ~Full(leadQueue)
    /\ LET task == [campaign_id |-> NextId, lead_id |-> Head(leads)]
       IN /\ leadQueue' = Append(leadQueue, task)
          /\ puts' = [puts EXCEPT ![task] = @ + 1]
    /\ unfinishedL' = unfinishedL + 1
    /\ leads' = Tail(leads)
    /\ UNCHANGED <<campaignQueue, unfinishedC, stop_event, campaign_thread,
                   campaign, export, expanded>>
    /\ UNCHANGED coordVars
    /\ UNCHANGED evaluatorVars
    /\ enqueuedL' = Append(enqueuedL, [campaign_id |-> NextId, lead_id |-> Head(leads)])
    /\ UNCHANGED <<enqueuedC, takenC, takenL, doneC,
                   doneL, completedRows>>
    /\ UNCHANGED limiterVars

\* one iteration of: for lead_id in leads: self.leadQueue.put({...})
PutLead ==
    /\ campaign_thread = "put_leads"
    /\ leads # <<>>
    /\ ~Full(leadQueue)
    /\ LET task == [campaign_id |-> campaign.id, lead_id |-> Head(leads)]
       IN /\ leadQueue' = Append(leadQueue, task)
          /\ puts' = [puts EXCEPT ![task] = @ + 1]
    /\ unfinishedL' = unfinishedL + 1
    /\ leads' = Tail(leads)
    /\ UNCHANGED <<campaignQueue, unfinishedC, stop_event, campaign_thread,
                   campaign, export, expanded>>
    /\ UNCHANGED coordVars
    /\ UNCHANGED evaluatorVars
    /\ enqueuedL' = Append(enqueuedL, [campaign_id |-> campaign.id, lead_id |-> Head(leads)])
    /\ UNCHANGED <<enqueuedC, takenC, takenL, doneC,
                   doneL, completedRows>>
    /\ UNCHANGED limiterVars

\* self.campaignQueue.task_done() after the for loop
CampaignTaskDone ==
    /\ campaign_thread = "put_leads"
    /\ leads = <<>>
    /\ unfinishedC' = task_done(unfinishedC)
    /\ campaign_thread' = "loop"
    /\ campaign' = NoneCampaign
    /\ export' = NoExport
    /\ UNCHANGED <<campaignQueue, leadQueue, unfinishedL, stop_event, leads,
                   expanded, puts>>
    /\ UNCHANGED coordVars
    /\ UNCHANGED evaluatorVars
    /\ doneC' = Append(doneC, campaign)
    /\ UNCHANGED <<enqueuedC, enqueuedL, takenC, takenL,
                   doneL, completedRows>>
    /\ UNCHANGED limiterVars

\* the thread ends without putting None on leadQueue
CampaignPutSentinel_none ==
    /\ campaign_thread = "put_sentinel"
    /\ ~Full(leadQueue)
    /\ UNCHANGED <<leadQueue, unfinishedL>>
    /\ campaign_thread' = "finished"
    /\ UNCHANGED <<campaignQueue, unfinishedC, stop_event, campaign, export, leads,
                   expanded, puts>>
    /\ UNCHANGED coordVars
    /\ UNCHANGED evaluatorVars
    /\ UNCHANGED enqueuedL
    /\ UNCHANGED <<enqueuedC, takenC, takenL, doneC,
                   doneL, completedRows>>
    /\ UNCHANGED limiterVars

\* self.leadQueue.put(None) after the loop; the thread ends
CampaignPutSentinel ==
    /\ campaign_thread = "put_sentinel"
    /\ ~Full(leadQueue)
    /\ leadQueue' = Append(leadQueue, NoneLead)
    /\ unfinishedL' = unfinishedL + 1
    /\ campaign_thread' = "finished"
    /\ UNCHANGED <<campaignQueue, unfinishedC, stop_event, campaign, export, leads,
                   expanded, puts>>
    /\ UNCHANGED coordVars
    /\ UNCHANGED evaluatorVars
    /\ enqueuedL' = Append(enqueuedL, NoneLead)
    /\ UNCHANGED <<enqueuedC, takenC, takenL, doneC,
                   doneL, completedRows>>
    /\ UNCHANGED limiterVars

\* ----------------------------------------------------- processLeadQueue

\* the loop condition also asks for an empty queue: the queue is drained first
LeadLoop_drains ==
    /\ lead_thread = "loop"
    /\ lead_thread' = IF stop_event /\ leadQueue = <<>> THEN "finished" ELSE "get"
    /\ UNCHANGED <<campaignQueue, leadQueue, unfinishedC, unfinishedL, stop_event,
                   message, emails, evals, deletes, puts>>
    /\ UNCHANGED coordVars
    /\ UNCHANGED expanderVars
    /\ UNCHANGED <<enqueuedC, enqueuedL, takenC, takenL,
                   doneC, doneL, completedRows>>
    /\ UNCHANGED limiterVars

\* while not self.stop_event.is_set()
LeadLoop ==
    /\ lead_thread = "loop"
    /\ lead_thread' = IF stop_event THEN "finished" ELSE "get"
    /\ UNCHANGED <<campaignQueue, leadQueue, unfinishedC, unfinishedL, stop_event,
                   message, emails, evals, deletes, puts>>
    /\ UNCHANGED coordVars
    /\ UNCHANGED expanderVars
    /\ UNCHANGED <<enqueuedC, enqueuedL, takenC, takenL,
                   doneC, doneL, completedRows>>
    /\ UNCHANGED limiterVars

\* self.leadQueue.get(timeout=1) raises Empty: continue
LeadGetTimeout ==
    /\ lead_thread = "get"
    /\ leadQueue = <<>>
    /\ lead_thread' = "loop"
    /\ UNCHANGED <<campaignQueue, leadQueue, unfinishedC, unfinishedL, stop_event,
                   message, emails, evals, deletes, puts>>
    /\ UNCHANGED coordVars
    /\ UNCHANGED expanderVars
    /\ UNCHANGED <<enqueuedC, enqueuedL, takenC, takenL,
                   doneC, doneL, completedRows>>
    /\ UNCHANGED limiterVars

\* task_done called as soon as the item is taken, and again at the end
LeadGet_done_on_get ==
    /\ lead_thread = "get"
    /\ leadQueue # <<>>
    /\ leadQueue' = Tail(leadQueue)
    /\ message' = Head(leadQueue)
    /\ unfinishedL' = task_done(unfinishedL)
    /\ lead_thread' = IF Head(leadQueue) = NoneLead THEN "loop"
                      ELSE "get_message_history"
    /\ UNCHANGED <<campaignQueue, unfinishedC, stop_event, emails, evals, deletes,
                   puts>>
    /\ UNCHANGED coordVars
    /\ UNCHANGED expanderVars
    /\ takenL' = Append(takenL, Head(leadQueue))
    /\ doneL' = Append(doneL, Head(leadQueue))
    /\ UNCHANGED <<enqueuedC, enqueuedL, takenC,
                   doneC, completedRows>>
    /\ UNCHANGED limiterVars

\* the sentinel ends the loop, as it does in addToLeadQueue
LeadGet_break_on_sentinel ==
    /\ lead_thread = "get"
    /\ leadQueue # <<>>
    /\ leadQueue' = Tail(leadQueue)
    /\ message' = Head(leadQueue)
    /\ IF Head(leadQueue) = NoneLead
       THEN /\ unfinishedL' = task_done(unfinishedL)
            /\ lead_thread' = "finished"
       ELSE /\ unfinishedL' = unfinishedL
            /\ lead_thread' = "get_message_history"
    /\ UNCHANGED <<campaignQueue, unfinishedC, stop_event, emails, evals, deletes,
                   puts>>
    /\ UNCHANGED coordVars
    /\ UNCHANGED expanderVars
    /\ takenL' = Append(takenL, Head(leadQueue))
    /\ doneL' = IF Head(leadQueue) = NoneLead THEN Append(doneL, NoneLead) ELSE doneL
    /\ UNCHANGED <<enqueuedC, enqueuedL, takenC,
                   doneC, completedRows>>
    /\ UNCHANGED limiterVars

\* the newest item is taken, not the oldest
LeadGet_lifo ==
    /\ lead_thread = "get"
    /\ leadQueue # <<>>
    /\ leadQueue' = SubSeq(leadQueue, 1, Len(leadQueue) - 1)
    /\ message' = leadQueue[Len(leadQueue)]
    /\ IF leadQueue[Len(leadQueue)] = NoneLead
       THEN /\ unfinishedL' = task_done(unfinishedL)
            /\ lead_thread' = "loop"
       ELSE /\ unfinishedL' = unfinishedL
            /\ lead_thread' = "get_message_history"
    /\ UNCHANGED <<campaignQueue, unfinishedC, stop_event, emails, evals, deletes,
                   puts>>
    /\ UNCHANGED coordVars
    /\ UNCHANGED expanderVars
    /\ takenL' = Append(takenL, leadQueue[Len(leadQueue)])
    /\ doneL' = IF leadQueue[Len(leadQueue)] = NoneLead THEN Append(doneL, NoneLead) ELSE doneL
    /\ UNCHANGED <<enqueuedC, enqueuedL, takenC,
                   doneC, completedRows>>
    /\ UNCHANGED limiterVars

\* after task_done for the sentinel the body runs on to its closing task_done
LeadGet_sentinel_falls_through ==
    /\ lead_thread = "get"
    /\ leadQueue # <<>>
    /\ leadQueue' = Tail(leadQueue)
    /\ message' = Head(leadQueue)
    /\ IF Head(leadQueue) = NoneLead
       THEN /\ unfinishedL' = task_done(unfinishedL)
            /\ lead_thread' = "task_done"
       ELSE /\ unfinishedL' = unfinishedL
            /\ lead_thread' = "get_message_history"
    /\ UNCHANGED <<campaignQueue, unfinishedC, stop_event, emails, evals, deletes,
                   puts>>
    /\ UNCHANGED coordVars
    /\ UNCHANGED expanderVars
    /\ takenL' = Append(takenL, Head(leadQueue))
    /\ doneL' = IF Head(leadQueue) = NoneLead THEN Append(doneL, NoneLead) ELSE doneL
    /\ UNCHANGED <<enqueuedC, enqueuedL, takenC,
                   doneC, completedRows>>
    /\ UNCHANGED limiterVars

\* message = self.leadQueue.get(timeout=1)
\* if message is None: self.leadQueue.task_done()
\* then message["campaign_id"] raises TypeError on None: continue
LeadGet ==
    /\ lead_thread = "get"
    /\ leadQueue # <<>>
    /\ leadQueue' = Tail(leadQueue)
    /\ message' = Head(leadQueue)
    /\ IF Head(leadQueue) = NoneLead
       THEN /\ unfinishedL' = task_done(unfinishedL)
            /\ lead_thread' = "loop"
       ELSE /\ unfinishedL' = unfinishedL
            /\ lead_thread' = "get_message_history"
    /\ UNCHANGED <<campaignQueue, unfinishedC, stop_event, emails, evals, deletes,
                   puts>>
    /\ UNCHANGED coordVars
    /\ UNCHANGED expanderVars
    /\ takenL' = Append(takenL, Head(leadQueue))
    /\ doneL' = IF Head(leadQueue) = NoneLead THEN Append(doneL, NoneLead) ELSE doneL
    /\ UNCHANGED <<enqueuedC, enqueuedL, takenC,
                   doneC, completedRows>>
    /\ UNCHANGED limiterVars

\* emails = self.get_message_history(...).get("history", [])
GetMessageHistory ==
    /\ lead_thread = "get_message_history"
    /\ \E resp \in HistoryResponses : emails' = get_message_history(resp)
    /\ lead_thread' = "evaluate"
    /\ UNCHANGED <<campaignQueue, leadQueue, unfinishedC, unfinishedL, stop_event,
                   message, evals, deletes, puts>>
    /\ UNCHANGED coordVars
    /\ UNCHANGED expanderVars
    /\ UNCHANGED <<enqueuedC, enqueuedL, takenC, takenL,
                   doneC, doneL, completedRows>>
    /\ UNCHANGED limiterVars

\* reply = any(...); if not reply and now - strptime(emails[-1]...) > 7 days:
\*     self._delete_leads(...)
\* IndexError on an empty history goes to the except clause: continue
Evaluate ==
    /\ lead_thread = "evaluate"
    /\ evals' = [evals EXCEPT ![message] = @ + 1]
    /\ deletes' = IF ~Raises(emails) /\ Stale(emails)
                  THEN [deletes EXCEPT ![message] = @ + 1]
                  ELSE deletes
    /\ lead_thread' = IF Raises(emails) THEN "loop" ELSE "task_done"
    /\ emails' = <<>>
    /\ message' = IF Raises(emails) THEN NoneLead ELSE message
    /\ UNCHANGED <<campaignQueue, leadQueue, unfinishedC, unfinishedL, stop_event,
                   puts>>
    /\ UNCHANGED coordVars
    /\ UNCHANGED expanderVars
    /\ UNCHANGED <<enqueuedC, enqueuedL, takenC, takenL,
                   doneC, doneL, completedRows>>
    /\ UNCHANGED limiterVars

\* self.leadQueue.task_done() at the end of the try body
LeadTaskDone ==
    /\ lead_thread = "task_done"
    /\ unfinishedL' = task_done(unfinishedL)
    /\ lead_thread' = "loop"
    /\ message' = NoneLead
    /\ UNCHANGED <<campaignQueue, leadQueue, unfinishedC, stop_event, emails, evals,
                   deletes, puts>>
    /\ UNCHANGED coordVars
    /\ UNCHANGED expanderVars
    /\ doneL' = Append(doneL, message)
    /\ UNCHANGED <<enqueuedC, enqueuedL, takenC, takenL,
                   doneC, completedRows>>
    /\ UNCHANGED limiterVars

\* ------------------------------------------- sleep_and_retry and limits

\* limits: period - (clock() - last_reset)
period_remaining == RATE_LIMIT - (clock - last_reset)

\* time passes; calls older than RATE_LIMIT seconds leave the span looked at
Tick ==
    /\ clock + Step <= MaxTime
    /\ clock' = clock + Step
    /\ recent' = [k \in 1..WindowInstants |-> IF k = 1 THEN 0 ELSE recent[k - 1]]
    /\ UNCHANGED <<last_reset, num_calls, wake>>
    /\ UNCHANGED pipelineVars

\* self.request(method, url) by one thread, through both decorators.
\* limits: when the period has elapsed, num_calls = 0 and last_reset = clock();
\* num_calls += 1; more than CALLS raises RateLimitException(period_remaining).
\* sleep_and_retry: on that exception time.sleep(period_remaining), then the
\* call is tried again; otherwise the HTTP call is made.
request(caller) ==
    /\ wake[caller] <= clock
    /\ LET elapsed == period_remaining <= 0
           calls == (IF elapsed THEN 0 ELSE num_calls) + 1
       IN /\ num_calls' = calls
          /\ last_reset' = IF elapsed THEN clock ELSE last_reset
          /\ IF calls > CALLS
             THEN /\ wake' = [wake EXCEPT ![caller] = clock + period_remaining]
                  /\ UNCHANGED recent
             ELSE /\ recent' = [recent EXCEPT ![1] = @ + 1]
                  /\ UNCHANGED wake
    /\ UNCHANGED clock
    /\ UNCHANGED pipelineVars

LimiterNext ==
    \/ Tick
    \/ \E caller \in Callers : request(caller)

\* The limiter on its own, called at any time by any of the three threads.
LimiterSpec == Init /\ [][LimiterNext]_vars

\* ---------------------------------------------------------------- system

Coordinator ==
    \/ GetCampaigns
    \/ StartLeadThread
    \/ StartCampaignThread
    \/ PutCampaign
    \/ PutSentinel
    \/ JoinCampaignQueue
    \/ JoinLeadQueue
    \/ FinallySetStop
    \/ FinallyPutCampaignQueue
    \/ FinallyPutLeadQueue
    \/ JoinCampaignThread
    \/ JoinLeadThread

Expander ==
    \/ CampaignLoop
    \/ CampaignGetTimeout
    \/ CampaignGet
    \/ CampaignKeyError
    \/ GetLeadIds
    \/ PutLead
    \/ CampaignTaskDone
    \/ CampaignPutSentinel

Evaluator ==
    \/ LeadLoop
    \/ LeadGetTimeout
    \/ LeadGet
    \/ GetMessageHistory
    \/ Evaluate
    \/ LeadTaskDone

Next ==
    \/ Coordinator
    \/ Expander
    \/ Evaluator
    \/ KeyboardInterrupt

Spec == Init /\ [][Next]_vars

\* The threads are scheduled fairly; nothing obliges the user to interrupt.
FairSpec ==
    /\ Spec
    /\ WF_vars(Coordinator)
    /\ WF_vars(Expander)
    /\ WF_vars(Evaluator)

TypeOK ==
    /\ stop_event \in BOOLEAN
    /\ interrupted \in BOOLEAN
    /\ unfinishedC \in Nat
    /\ unfinishedL \in Nat
    /\ count \in 0..BreakCount
    /\ expanded \subseteq CampaignIds
    /\ clock \in 0..MaxTime
    /\ last_reset \in 0..MaxTime
    /\ num_calls \in 0..(CALLS + Cardinality(Callers))
    /\ \A k \in 1..WindowInstants : recent[k] \in 0..CALLS

\* ---------------------------------------------------------------- claims

NoReplyEntry(h) == \A i \in 1..Len(h) : h[i].type # "REPLY"
LastAge(h) == h[Len(h)].age
FinallyBlock == {"finally", "finally_put_campaignQueue", "finally_put_leadQueue",
                 "finally_join_campaign_thread", "finally_join_lead_thread",
                 "done", "raised"}
\* the evaluator holds a lead task it has taken and not yet finished with
Holding == lead_thread \in {"get_message_history", "evaluate", "task_done"}
\* the step in which the evaluator decides about the lead task it holds
Decides == lead_thread = "evaluate" /\ lead_thread' # "evaluate"
\* leadQueue.join() has returned without an interruption
LeadQueueJoined == pc \in FinallyBlock /\ ~interrupted /\ campaigns # <<>>

\* C1: a DELETE is issued for a (campaign_id, lead_id) only in the evaluation
\* of that lead task, and only when the history fetched for it has no REPLY
\* entry and its last entry is older than 7 days.
C1_DeleteOnlyStale ==
    [][\A p \in Pairs :
         deletes'[p] # deletes[p] =>
           /\ Decides
           /\ p = message
           /\ deletes'[p] = deletes[p] + 1
           /\ NoReplyEntry(emails)
           /\ Len(emails) > 0
           /\ LastAge(emails) > GraceDays]_vars

C1_Witness ==
    /\ lead_thread = "task_done"
    /\ message \in Pairs
    /\ deletes[message] = 1

\* C2: a run with a non-empty campaign list and no interruption eventually
\* finishes: execute returns, whatever the HTTP calls gave.
C2_ExecuteFinishes ==
    <>(\/ interrupted
       \/ (pc # "get_campaigns" /\ campaigns = <<>>)
       \/ pc = "done")

\* C3: when the evaluation of a lead task raises, the loop continues and the
\* task is still marked processed: unfinished_tasks drops by one for it.
C3_RaisedTaskMarkedDone ==
    [][(Decides /\ emails = <<>>) =>
         (lead_thread' = "loop" /\ unfinishedL' = unfinishedL - 1)]_vars

\* C4: when the campaign fetch gives an empty list, execute stops cleanly: no
\* worker is started, nothing is put on either queue and no error is raised.
C4_EmptyListStopsCleanly ==
    (pc # "get_campaigns" /\ campaigns = <<>> /\ ~interrupted) =>
       /\ pc # "raised"
       /\ campaign_thread = "unstarted"
       /\ lead_thread = "unstarted"
       /\ campaignQueue = <<>>
       /\ leadQueue = <<>>
       /\ unfinishedC = 0
       /\ unfinishedL = 0

\* C5: once the stop flag is set, both worker loops eventually have exited
\* and the coordinator's joins on both threads have returned.
C5_StopLeadsToJoined ==
    stop_event ~> (/\ pc = "done"
                   /\ campaign_thread = "finished"
                   /\ lead_thread = "finished")

\* C6: the teardown of execute never raises an error, from whatever state
\* it is entered.
C6_TeardownNeverRaises == pc # "raised"

\* C7: a campaign of the fetched list whose status is not COMPLETED is never
\* on the campaign queue, its export is never fetched, and no lead task with
\* its id is created, queued, evaluated or deleted.
C7_OnlyCompletedCampaigns ==
    \A i \in DOMAIN response.body :
       response.body[i].status # "COMPLETED" =>
         LET c == response.body[i].id
         IN /\ \A k \in DOMAIN campaignQueue : campaignQueue[k].id # c
            /\ campaign.id # c
            /\ c \notin expanded
            /\ \A k \in DOMAIN leadQueue : leadQueue[k].campaign_id # c
            /\ message.campaign_id # c
            /\ \A p \in Pairs :
                 p.campaign_id = c =>
                   puts[p] = 0 /\ evals[p] = 0 /\ deletes[p] = 0

C7_Witness ==
    /\ pc = "done"
    /\ ~interrupted
    /\ \E i \in DOMAIN response.body : response.body[i].status # "COMPLETED"
    /\ \E p \in Pairs : evals[p] = 1

\* C8: a lead task is put on the lead queue only for a row of the export of
\* the campaign being expanded whose status is COMPLETED, never for a row
\* with another status; and only lead tasks that were put are ever queued,
\* evaluated or deleted.
C8_OnlyCompletedRows ==
    /\ [](\A p \in Pairs :
            (\/ evals[p] > 0
             \/ deletes[p] > 0
             \/ message = p
             \/ \E k \in DOMAIN leadQueue : leadQueue[k] = p) => puts[p] > 0)
    /\ [][\A p \in Pairs :
            puts'[p] # puts[p] =>
              /\ p.campaign_id = campaign.id
              /\ \E i \in DOMAIN export.body :
                   export.body[i].id = p.lead_id /\ export.body[i].status = "COMPLETED"
              /\ \A i \in DOMAIN export.body :
                   export.body[i].id = p.lead_id => export.body[i].status = "COMPLETED"]_vars

C8_Witness ==
    /\ campaign_thread = "put_leads"
    /\ \E i \in DOMAIN export.body : export.body[i].status # "COMPLETED"
    /\ leads = <<>>
    /\ \A p \in Pairs : p.campaign_id = campaign.id => puts[p] = 0

C10_EvaluatedOnce ==
    /\ \A p \in Pairs : evals[p] <= puts[p] /\ puts[p] <= 1
    /\ LeadQueueJoined =>
         /\ \A k \in DOMAIN leadQueue : leadQueue[k] = NoneLead
         /\ ~Holding
         /\ \A p \in Pairs : evals[p] = puts[p]

C10_Witness ==
    /\ LeadQueueJoined
    /\ \E p, q \in Pairs : p # q /\ evals[p] = 1 /\ evals[q] = 1

\* --------------------------------------------------------- claims C11-C20

\* number of positions of seq that hold x
Count(seq, x) == Cardinality({i \in DOMAIN seq : seq[i] = x})
\* the expander holds a campaign it has taken and not yet finished with
Expanding == campaign_thread \in {"get_lead_ids", "put_leads"}
\* the step in which the expander's handling of the campaign it holds ends
EndsHandling == Expanding /\ campaign_thread' = "loop"

\* C11: when expanding a campaign fails (the export fetch fails, the export
\* is malformed, or any other exception is raised while the campaign is
\* handled), no lead task is put for it, the campaign is still marked
\* processed on the campaign queue, and the expander goes on with its loop.
C11_FailedCampaignMarkedDone ==
    [][/\ (campaign_thread = "get_lead_ids" /\ campaign_thread' # "get_lead_ids")
          => \/ campaign.id # MissingId /\ export'.ok
             \/ /\ leads' = <<>>
                /\ enqueuedL' = enqueuedL
                /\ campaign_thread' \in {"loop", "put_leads"}
       /\ EndsHandling
          => /\ doneC' = Append(doneC, campaign)
             /\ unfinishedC' = unfinishedC - 1]_vars

RECURSIVE SumSeq(_)
SumSeq(q) == IF q = <<>> THEN 0 ELSE Head(q) + SumSeq(Tail(q))

\* C12: over all callers of request, no more than CALLS = 50 HTTP calls are
\* made within any span of RATE_LIMIT = 60 seconds; a call beyond the cap
\* waits and is made later.
C12_AtMostCallsPerWindow == SumSeq(recent) <= CALLS

\* execute is past self.leadQueue.put(None) of its finally block
CoordinatorPutNoneLead ==
    pc \in {"finally_join_campaign_thread", "finally_join_lead_thread", "done", "raised"}

\* C13: whenever the expander leaves its loop, on taking the sentinel or on
\* seeing the stop flag, it puts exactly one sentinel on the lead queue, after
\* the last lead task it put and never followed by a lead task of its own;
\* a sentinel taken from the campaign queue is marked processed before the
\* loop is left.
C13_OneSentinelOnExit ==
    /\ [](Count(enqueuedL, NoneLead) =
            (IF campaign_thread = "finished" THEN 1 ELSE 0)
              + (IF CoordinatorPutNoneLead THEN 1 ELSE 0))
    /\ [][/\ (campaign_thread = "get" /\ campaign_thread' = "put_sentinel")
             => /\ Head(campaignQueue) = NoneCampaign
                /\ doneC' = Append(doneC, NoneCampaign)
                /\ unfinishedC' = unfinishedC - 1
          /\ (campaign_thread = "loop" /\ campaign_thread' = "put_sentinel")
             => stop_event
          /\ (campaign_thread' = "put_sentinel" /\ campaign_thread # "put_sentinel")
             => campaign_thread \in {"loop", "get"}
          /\ (campaign_thread' = "finished" /\ campaign_thread # "finished")
             => /\ campaign_thread = "put_sentinel"
                /\ leadQueue' = Append(leadQueue, NoneLead)
                /\ enqueuedL' = Append(enqueuedL, NoneLead)
          /\ campaign_thread \in {"put_sentinel", "finished"}
             => /\ campaign_thread' \in {"put_sentinel", "finished"}
                /\ puts' = puts]_vars

\* the expander took the sentinel, put lead tasks before it and one None after
C13_Witness ==
    /\ campaign_thread = "finished"
    /\ Len(enqueuedL) >= 2
    /\ enqueuedL[1] \in Pairs
    /\ enqueuedL[Len(enqueuedL)] = NoneLead
    /\ Count(takenC, NoneCampaign) = 1

Min(a, b) == IF a <= b THEN a ELSE b
\* the campaigns put on the campaign queue so far, in order
PutCampaigns == SelectSeq(enqueuedC, LAMBDA c : c # NoneCampaign)
\* the first three COMPLETED campaigns of the list
FirstThree == SubSeq(campaigns, 1, Min(Len(campaigns), 3))

\* C14: when n COMPLETED campaigns are returned, one run of execute puts
\* exactly the first min(n, 3) of them on the campaign queue, in list order,
\* then one sentinel; no campaign beyond the third is put or expanded.
C14_FirstThreeThenSentinel ==
    /\ pc \in {"join_campaignQueue", "join_leadQueue"}
         => enqueuedC = FirstThree \o <<NoneCampaign>>
    /\ (~interrupted /\ pc \notin {"get_campaigns", "start_lead", "start_campaign",
                                    "put_campaign"})
         => PutCampaigns = FirstThree
    /\ Len(PutCampaigns) <= Len(FirstThree)
    /\ PutCampaigns = SubSeq(campaigns, 1, Len(PutCampaigns))
    /\ expanded \subseteq {FirstThree[i].id : i \in DOMAIN FirstThree}
    /\ \A i \in DOMAIN takenC :
         takenC[i] # NoneCampaign => \E j \in DOMAIN FirstThree : FirstThree[j] = takenC[i]

\* four COMPLETED campaigns were returned and execute waits on the queue
C14_Witness ==
    /\ pc = "join_campaignQueue"
    /\ Len(campaigns) = 4
    /\ Len(enqueuedC) = 4
    /\ enqueuedC[4] = NoneCampaign

\* C15: both queues are bounded by a fixed capacity, so the memory they use
\* is bounded by that capacity and not by the number of campaigns or leads.
C15_QueuesBounded ==
    /\ maxsize > 0
    /\ Len(campaignQueue) <= maxsize
    /\ Len(leadQueue) <= maxsize

\* C16: the evaluator does not leave its loop on the sentinel: it marks the
\* sentinel processed once, with no history fetch, evaluation or DELETE for
\* it, goes on looping, and ends only after the stop flag is set.
C16_SentinelDoesNotEndEvaluator ==
    /\ [](lead_thread = "finished" => stop_event)
    /\ [](Holding => message # NoneLead)
    /\ [](Count(doneL, NoneLead) = Count(takenL, NoneLead))
    /\ [][/\ (takenL' # takenL /\ Head(leadQueue) = NoneLead)
             => /\ lead_thread' = "loop"
                /\ takenL' = Append(takenL, NoneLead)
                /\ doneL' = Append(doneL, NoneLead)
                /\ unfinishedL' = unfinishedL - 1
                /\ UNCHANGED <<evals, deletes, emails>>
          /\ (lead_thread' = "finished" /\ lead_thread # "finished")
             => lead_thread = "loop" /\ stop_event]_vars

\* the evaluator has taken the expander's sentinel and polls on, no stop yet
C16_Witness ==
    /\ ~stop_event
    /\ campaign_thread = "finished"
    /\ Count(takenL, NoneLead) = 1
    /\ lead_thread = "get"
    /\ leadQueue = <<>>

\* C17: once the stop flag is set, each worker leaves its loop at the next
\* test of the loop condition, so it takes at most one further item (the
\* get it had already begun), and an item in hand when the flag is set is
\* processed to its end, not abandoned.
C17_StopsAtLoopBoundary ==
    [][/\ (stop_event /\ campaign_thread = "loop")
          => campaign_thread' \in {"loop", "put_sentinel"}
       /\ (stop_event /\ lead_thread = "loop")
          => lead_thread' \in {"loop", "finished"}
       /\ (campaign_thread' = "get" /\ campaign_thread # "get")
          => campaign_thread = "loop" /\ ~stop_event
       /\ (lead_thread' = "get" /\ lead_thread # "get")
          => lead_thread = "loop" /\ ~stop_event
       /\ takenC' # takenC
          => /\ campaign_thread = "get" /\ campaign_thread' # "get"
             /\ Len(takenC') = Len(takenC) + 1
       /\ takenL' # takenL
          => /\ lead_thread = "get" /\ lead_thread' # "get"
             /\ Len(takenL') = Len(takenL) + 1
       /\ (campaign_thread' = "put_sentinel" /\ campaign_thread # "put_sentinel")
          => campaign_thread \in {"loop", "get"}
       /\ (lead_thread' = "finished" /\ lead_thread # "finished")
          => lead_thread = "loop"
       /\ (campaign_thread = "put_leads" /\ campaign_thread' # "put_leads")
          => /\ campaign_thread' = "loop"
             /\ leads = <<>>
             /\ doneC' = Append(doneC, campaign)
       /\ (campaign_thread = "put_leads" /\ leads # <<>> /\ leads' # leads)
          => enqueuedL' = Append(enqueuedL, [campaign_id |-> campaign.id,
                                              lead_id |-> Head(leads)])
       /\ (lead_thread = "get_message_history" /\ lead_thread' # "get_message_history")
          => lead_thread' = "evaluate"
       /\ (Decides /\ stop_event /\ emails # <<>> /\ NoReplyEntry(emails)
             /\ LastAge(emails) > GraceDays)
          => /\ deletes' = [deletes EXCEPT ![message] = @ + 1]
             /\ lead_thread' = "task_done"
       /\ (lead_thread = "task_done" /\ lead_thread' # "task_done")
          => doneL' = Append(doneL, message)]_vars

\* the stop flag is set while both workers have an item in hand
C17_Witness ==
    /\ stop_event
    /\ campaign_thread = "put_leads"
    /\ leads # <<>>
    /\ lead_thread = "evaluate"
    /\ emails # <<>>

\* position in the campaign queue's put order of the campaign with this id
PosC(id) == CHOOSE i \in DOMAIN enqueuedC : enqueuedC[i].id = id

\* C18: both queues hand items out in the order they were put; campaigns are
\* expanded in the order they were put, a campaign's lead tasks are put in
\* export order, and every lead task of an earlier campaign is evaluated
\* before any lead task of a later campaign.
C18_Fifo ==
    /\ takenC \o campaignQueue = enqueuedC
    /\ takenL \o leadQueue = enqueuedL
    /\ \A i, j \in DOMAIN enqueuedL :
         (i < j /\ enqueuedL[i] \in Pairs /\ enqueuedL[j] \in Pairs)
           => \/ PosC(enqueuedL[i].campaign_id) < PosC(enqueuedL[j].campaign_id)
              \/ /\ enqueuedL[i].campaign_id = enqueuedL[j].campaign_id
                 /\ enqueuedL[i].lead_id < enqueuedL[j].lead_id
    /\ Holding => message = takenL[Len(takenL)]
    /\ \A p, q \in Pairs :
         (evals[q] > 0 /\ puts[p] > 0 /\ PosC(p.campaign_id) < PosC(q.campaign_id))
           => evals[p] > 0

\* lead tasks of two campaigns were evaluated
C18_Witness ==
    \E p, q \in Pairs :
       /\ evals[p] > 0 /\ evals[q] > 0
       /\ PosC(p.campaign_id) < PosC(q.campaign_id)

\* C19: on each queue the task_done calls never outnumber the items taken,
\* no taken item is marked processed twice, the count of unfinished tasks
\* never goes below zero, and task_done never raises.
C19_TaskDoneWithinGets ==
    /\ [](/\ Len(doneC) <= Len(takenC)
          /\ Len(doneL) <= Len(takenL)
          /\ \A i \in DOMAIN doneC : Count(doneC, doneC[i]) <= Count(takenC, doneC[i])
          /\ \A i \in DOMAIN doneL : Count(doneL, doneL[i]) <= Count(takenL, doneL[i])
          /\ unfinishedC >= 0 /\ unfinishedC = Len(enqueuedC) - Len(doneC)
          /\ unfinishedL >= 0 /\ unfinishedL = Len(enqueuedL) - Len(doneL))
    /\ [][/\ doneC' # doneC => unfinishedC > 0 /\ Len(doneC') = Len(doneC) + 1
          /\ doneL' # doneL => unfinishedL > 0 /\ Len(doneL') = Len(doneL) + 1]_vars

\* a full run: campaign, lead task and both sentinels taken and marked
C19_Witness ==
    /\ pc = "done"
    /\ \E i \in DOMAIN doneL : doneL[i] \in Pairs
    /\ Count(doneL, NoneLead) = 2
    /\ Count(doneC, NoneCampaign) = 1

\* C20: the lead_id of every lead task, history fetch and DELETE is the id of
\* a COMPLETED row of the export fetched for the campaign_id it is paired
\* with; leads of different campaigns are never mixed.
C20_PairsFromOwnExport ==
    /\ \A i \in DOMAIN enqueuedL :
         enqueuedL[i] # NoneLead => enqueuedL[i] \in completedRows
    /\ Holding => message \in completedRows
    /\ \A p \in Pairs :
         (puts[p] > 0 \/ evals[p] > 0 \/ deletes[p] > 0) => p \in completedRows

\* a lead of one campaign was deleted while the export of another campaign,
\* also fetched, had no COMPLETED row with that lead id
C20_Witness ==
    \E p, q \in Pairs :
       /\ deletes[q] > 0
       /\ p.lead_id = q.lead_id
       /\ p.campaign_id \in expanded
       /\ p \notin completedRows
====
